---- MODULE Spec2Model ----
(***************************************************************************)
(* A model of the key-value server: the keyspace store of src/src/store.rs *)
(* (Database::set, set_with_expire, get, keys over a tokio RwLock), its    *)
(* snapshot loader (Database::new, serialize, serialize_kv, length_encode),*)
(* the connection handler and command dispatch of src/src/main.rs          *)
(* (handle_stream, execute_command) and the request decoders of            *)
(* src/src/parse.rs and src/src/main.rs.                                   *)
(*                                                                         *)
(* Strings are sequences of bytes (0..255); Option<T> is a sequence of     *)
(* length 0 (None) or 1 (Some).  SystemTime is a natural number of         *)
(* milliseconds read from the variable clock.                              *)
(***************************************************************************)
EXTENDS Integers, Sequences, FiniteSets, TLC

(* ------------------------------ bounds --------------------------------- *)
\* connection tasks spawned by main (one per accepted connection)
NumTasks == 2
\* distinct keys the clients use: "a", "b", ...
NumKeys == 2
\* the clock runs from 0 to MaxClock
MaxClock == 1
\* store calls issued in one behaviour
MaxOps == 4

None == <<>>
Some(x) == <<x>>

Tasks == 1..NumTasks
KeySet == { <<96 + i>> : i \in 1..NumKeys }
\* the value client t writes: "x", "y", ...
ValueOf(t) == <<119 + t>>
Star == <<42>>
PatternSet == { Star, <<97>> }
TtlSet == { 0, 100000 }

VARIABLES
  db,            \* Database.db: HashMap<String, ExpiringValue>
  rw_readers,    \* tasks holding a read guard of Database.db
  rw_writer,     \* tasks holding the write guard of Database.db (at most one)
  clock,         \* what SystemTime::now() returns
  pc,            \* where each connection task stands
  call,          \* the store call a task is executing
  now,           \* the local `now` of set_with_expire, get and keys
  value,         \* the local `value` of set, set_with_expire and get
  expired_keys,  \* the local `expired_keys` of keys
  valid_keys,    \* the local `valid_keys` of keys
  ret,           \* what the store call returned
  resp,          \* the reply execute_command is writing
  ops,           \* store calls issued so far
  phase,         \* "mixed": any call; "writers"/"readers": writers, then readers
  gone,          \* history: key -> a get removed it and nothing was inserted since
  lastw,         \* history: key -> the last completed insert
  prior,         \* history: task -> lastw of its key when its get began, if no insert since
  writes,        \* history: the inserts issued in phase "writers"
  tokens,        \* the tokens a client framed into buf
  buf,           \* handle_stream's buf[..n]: the request frame read
  parsed,        \* what a decoder returned for buf
  overflow_checks, \* the build panics on integer overflow (debug) or wraps (release)
  snapshot,      \* the records, and the damage, the snapshot file was built with
  file,          \* the snapshot file's bytes, if the configured file opens
  boot,          \* main: "starting" before Database::new, then "serving" or "aborted"
  conn,          \* each connection: "open", "closed" or "aborted" (its task panicked)
  req            \* handle_stream's buf[..n] of each connection task

vars == << db, rw_readers, rw_writer, clock, pc, call, now, value, expired_keys,
           valid_keys, ret, resp, ops, phase, gone, lastw, prior, writes,
           tokens, buf, parsed, overflow_checks, snapshot, file, boot,
           conn, req >>

store_vars == << db, rw_readers, rw_writer, clock, pc, call, now, value,
                 expired_keys, valid_keys, ret, resp, ops, phase, gone, lastw,
                 prior, writes >>

parse_vars == << tokens, buf, parsed, overflow_checks >>

io_vars == << snapshot, file, boot, conn, req >>

(* ------------------------- parse.rs and main.rs ------------------------ *)

BULK_STRING == 36
ARRAY == 42
CR == 13
LF == 10

\* u8 arithmetic
U8 == 256

Panic == [kind |-> "panic", len |-> 0, used |-> 0, str |-> <<>>]
Err == [kind |-> "err", len |-> 0, used |-> 0, str |-> <<>>]

\* &input[pos..] with pos counted from 0; the caller checks pos <= Len(input)
SliceFrom(input, pos) == SubSeq(input, pos + 1, Len(input))

\* parse_lenght: the loop at byte `at` (from 1) with `len` accumulated.
\* input[pos] - b'0' is u8 arithmetic: below b'0' it panics when the build
\* checks overflow and wraps otherwise.  Reading past the buffer panics.
\* (The frames of the model hold at most two length digits, so `len` stays
\* far below usize::MAX.)
RECURSIVE parse_lenght_loop(_, _, _, _)
parse_lenght_loop(input, at, len, checks) ==
  IF at > Len(input) THEN Panic
  ELSE IF input[at] = CR THEN [Panic EXCEPT !.kind = "ok", !.len = len, !.used = (at - 1) + 2]
  ELSE IF input[at] < 48 /\ checks THEN Panic
  ELSE parse_lenght_loop(input, at + 1, len * 10 + ((input[at] + (U8 - 48)) % U8), checks)

\* the offset returned stops at the CR and leaves the LF unread
parse_lenght_cr_only(input, checks) ==
  LET r == parse_lenght_loop(input, 1, 0, checks)
  IN  IF r.kind = "ok" THEN [r EXCEPT !.used = r.used - 1] ELSE r

parse_lenght(input, checks) == parse_lenght_loop(input, 1, 0, checks)

\* String::from_utf8_lossy(..).to_string() on the ASCII bytes of the model
from_utf8_lossy(bytes) == bytes

parse_bulk_string(input, checks) ==
  IF Len(input) = 0 THEN Panic
  ELSE IF input[1] # BULK_STRING THEN Err
  ELSE LET l == parse_lenght(SliceFrom(input, 1), checks)
           pos == 1 + l.used
       IN  IF l.kind # "ok" THEN Panic
           ELSE IF pos + l.len > Len(input) THEN Panic
           ELSE [kind |-> "ok", len |-> l.len, used |-> pos + l.len + 2,
                 str |-> from_utf8_lossy(SubSeq(input, pos + 1, pos + l.len))]

ArrayErr(kind) == [kind |-> kind, array |-> <<>>]

\* parse_array: the loop with `left` elements to read from byte offset pos
RECURSIVE parse_array_loop(_, _, _, _, _)
parse_array_loop(input, pos, left, array, checks) ==
  IF left = 0 THEN [kind |-> "ok", array |-> array]
  ELSE IF pos > Len(input) THEN ArrayErr("panic")
  ELSE LET b == parse_bulk_string(SliceFrom(input, pos), checks)
       IN  IF b.kind # "ok" THEN ArrayErr(b.kind)
           ELSE parse_array_loop(input, pos + b.used, left - 1, Append(array, b.str), checks)

parse_array(input, checks) ==
  IF Len(input) = 0 THEN ArrayErr("panic")
  ELSE IF input[1] # ARRAY THEN ArrayErr("err")
  ELSE LET l == parse_lenght(SliceFrom(input, 1), checks)
       IN  IF l.kind # "ok" THEN ArrayErr("panic")
           ELSE parse_array_loop(input, 1 + l.used, l.len, <<>>, checks)

\* str::to_lowercase / to_ascii_uppercase on ASCII
to_lowercase(str) == [i \in 1..Len(str) |-> IF str[i] \in 65..90 THEN str[i] + 32 ELSE str[i]]
to_ascii_uppercase(str) == [i \in 1..Len(str) |-> IF str[i] \in 97..122 THEN str[i] - 32 ELSE str[i]]

RECURSIVE digits_value(_, _)
digits_value(str, acc) ==
  IF str = <<>> THEN acc ELSE digits_value(Tail(str), acc * 10 + (Head(str) - 48))

\* str::parse::<u64>(): an optional '+', then one or more decimal digits
\* (the model's numbers stay far below u64::MAX)
parse_u64(str) ==
  LET digits == IF str # <<>> /\ Head(str) = 43 THEN Tail(str) ELSE str
  IN  IF digits # <<>> /\ \A i \in 1..Len(digits) : digits[i] \in 48..57
      THEN Some(digits_value(digits, 0))
      ELSE None

\* enum Command
Command(tag, a, b, px) == [tag |-> tag, a |-> a, b |-> b, px |-> px]
Ping == Command("Ping", <<>>, <<>>, None)
Echo(m) == Command("Echo", m, <<>>, None)
Set(k, v, px) == Command("Set", k, v, px)
Get(k) == Command("Get", k, <<>>, None)
ConfigGet(k) == Command("ConfigGet", k, <<>>, None)
Unknown == Command("Unknown", <<>>, <<>>, None)

Ok(cmd) == [kind |-> "ok", cmd |-> cmd]
Fail(kind) == [kind |-> kind, cmd |-> Unknown]

S_ping == <<112, 105, 110, 103>>
S_echo == <<101, 99, 104, 111>>
S_set == <<115, 101, 116>>
S_get == <<103, 101, 116>>
S_config == <<99, 111, 110, 102, 105, 103>>
S_px == <<112, 120>>

\* parse.rs parse_command: the match on the tokens
interpret(tokens_) ==
  IF Len(tokens_) < 1 THEN Fail("panic")
  ELSE LET name == to_lowercase(tokens_[1])
       IN  IF name = S_ping THEN Ok(Ping)
           ELSE IF name = S_echo THEN
             IF Len(tokens_) < 2 THEN Fail("panic") ELSE Ok(Echo(tokens_[2]))
           ELSE IF name = S_set THEN
             IF Len(tokens_) = 3 THEN Ok(Set(tokens_[2], tokens_[3], None))
             ELSE IF Len(tokens_) = 5 /\ to_lowercase(tokens_[4]) = S_px THEN
               LET expiry_in_ms == parse_u64(tokens_[4])
               IN  IF expiry_in_ms = None THEN Fail("panic")
                   ELSE Ok(Set(tokens_[2], tokens_[3], expiry_in_ms))
             ELSE Ok(Unknown)
           ELSE IF name = S_get THEN
             IF Len(tokens_) < 2 THEN Fail("panic") ELSE Ok(Get(tokens_[2]))
           ELSE IF name = S_config THEN
             IF Len(tokens_) < 3 THEN Ok(Unknown)
             ELSE IF to_lowercase(tokens_[2]) = S_get THEN Ok(ConfigGet(tokens_[3]))
             ELSE Ok(Unknown)
           ELSE Ok(Unknown)

\* parse.rs parse_command
parse_command(input, checks) ==
  LET t == parse_array(input, checks)
  IN  IF t.kind # "ok" THEN Fail(t.kind) ELSE interpret(t.array)


\* &input[pos..] handed to parse_bulk_string
bulk_at(input, pos, checks) ==
  IF pos > Len(input) THEN Panic ELSE parse_bulk_string(SliceFrom(input, pos), checks)

\* main.rs parse_echo_arg and parse_get_arg: a decoding error leaves the
\* string empty
parse_echo_arg(input, pos, checks) ==
  LET b == bulk_at(input, pos, checks)
  IN  IF b.kind = "panic" THEN Fail("panic")
      ELSE Ok(Echo(IF b.kind = "ok" THEN b.str ELSE <<>>))

parse_get_arg(input, pos, checks) ==
  LET b == bulk_at(input, pos, checks)
  IN  IF b.kind = "panic" THEN Fail("panic")
      ELSE Ok(Get(IF b.kind = "ok" THEN b.str ELSE <<>>))

\* main.rs parse_set_arg on &input[from..]
parse_set_arg(input, from, arg_count, checks) ==
  LET key == bulk_at(input, from, checks)
      p1 == from + key.used
  IN
  IF key.kind # "ok" THEN Fail(key.kind)
  ELSE IF p1 >= Len(input) THEN Fail("panic")
  ELSE IF input[p1 + 1] # BULK_STRING THEN Fail("err")
  ELSE
    LET val == bulk_at(input, p1, checks)
        p2 == p1 + val.used
    IN
    IF val.kind # "ok" THEN Fail(val.kind)
    ELSE IF arg_count = 2 THEN Ok(Set(key.str, val.str, None))
    ELSE
      LET arg == bulk_at(input, p2, checks)
          p3 == p2 + arg.used
      IN
      IF arg.kind # "ok" THEN Fail(arg.kind)
      ELSE IF to_lowercase(arg.str) # S_px THEN Fail("err")
      ELSE
        LET expiry_in_ms == bulk_at(input, p3, checks)
        IN  IF expiry_in_ms.kind # "ok" THEN Fail(expiry_in_ms.kind)
            ELSE IF parse_u64(expiry_in_ms.str) = None THEN Fail("panic")
            ELSE Ok(Set(key.str, val.str, parse_u64(expiry_in_ms.str)))

\* main.rs parse_command
main_parse_command(input, checks) ==
  IF Len(input) = 0 THEN Fail("panic")
  ELSE IF input[1] # ARRAY THEN Fail("err")
  ELSE
    LET args_count == parse_lenght(SliceFrom(input, 1), checks)
        p1 == 1 + args_count.used
    IN
    IF args_count.kind # "ok" THEN Fail("panic")
    ELSE IF p1 >= Len(input) THEN Fail("panic")
    ELSE IF input[p1 + 1] # BULK_STRING THEN Fail("err")
    ELSE
      LET string_lemgth == parse_lenght(SliceFrom(input, p1 + 1), checks)
          p2 == p1 + 1 + string_lemgth.used
      IN
      IF string_lemgth.kind # "ok" THEN Fail("panic")
      ELSE IF p2 + string_lemgth.len > Len(input) THEN Fail("panic")
      ELSE
        LET command == to_ascii_uppercase(
                         from_utf8_lossy(SubSeq(input, p2 + 1, p2 + string_lemgth.len)))
            p3 == p2 + string_lemgth.len + 2
        IN
        IF command = to_ascii_uppercase(S_ping) THEN Ok(Ping)
        ELSE IF command = to_ascii_uppercase(S_echo) THEN
          IF args_count.len # 2 THEN Fail("err") ELSE parse_echo_arg(input, p3, checks)
        ELSE IF command = to_ascii_uppercase(S_set) THEN
          IF args_count.len < 3 THEN Fail("err")
          ELSE parse_set_arg(input, p3, args_count.len - 1, checks)
        ELSE IF command = to_ascii_uppercase(S_get) THEN
          IF args_count.len # 2 THEN Fail("err") ELSE parse_get_arg(input, p3, checks)
        ELSE Fail("err")

(* ---- the request frames clients send ---- *)
\* tokens in a request
MaxTokens == 5

RECURSIVE decimal(_)
decimal(n) == IF n < 10 THEN <<48 + n>> ELSE decimal(n \div 10) \o <<48 + (n % 10)>>

encode_bulk_string(str) == <<BULK_STRING>> \o decimal(Len(str)) \o <<CR, LF>> \o str \o <<CR, LF>>

RECURSIVE encode_bulk_strings(_)
encode_bulk_strings(ts) ==
  IF ts = <<>> THEN <<>> ELSE encode_bulk_string(Head(ts)) \o encode_bulk_strings(Tail(ts))

encode_request(ts) == <<ARRAY>> \o decimal(Len(ts)) \o <<CR, LF>> \o encode_bulk_strings(ts)

\* command names and arguments the clients use
NameSet == { S_ping, S_echo, S_set, to_ascii_uppercase(S_set), S_get, S_config,
             <<107, 101, 121, 115>> }
\* "k", "px", "PX", "10", "get" and the ten bytes "abcdefghij"
ArgSet == { <<107>>, S_px, to_ascii_uppercase(S_px), <<49, 48>>, S_get,
            [i \in 1..10 |-> 96 + i] }

TokenSeqs ==
  { <<>> } \cup
  UNION { { <<n>> \o rest : n \in NameSet, rest \in [1..l -> ArgSet] } : l \in 0..(MaxTokens - 1) }

ParseIdle ==
  /\ tokens = <<>> /\ buf = <<>> /\ parsed = None /\ overflow_checks = TRUE

\* main has built the Database with no snapshot file and accepted the
\* connections; no handler has read anything yet
NoSnapshot == [records |-> <<>>, damage |-> "none"]

\* buf before the first read; kind says how a frame departs from the wire format
NoRequest == [bytes |-> <<>>, kind |-> "none"]

IoIdle ==
  /\ snapshot = NoSnapshot /\ file = None /\ boot = "serving"
  /\ conn = [t \in Tasks |-> "open"]
  /\ req = [t \in Tasks |-> NoRequest]


(* ------------------------------ store.rs ------------------------------- *)

\* struct ExpiringValue { value, expires_at }
ExpiringValue(v, e) == [value |-> v, expires_at |-> e]

\* the comparison of the guard turned around
is_expired_reversed(expires_at, now_) == expires_at # None /\ expires_at[1] > now_

\* the match guard `Some(expires_at) if expires_at < now`
is_expired(expires_at, now_) == expires_at # None /\ expires_at[1] < now_

\* an insert that keeps the expiry of the entry it overwrites
hm_insert_torn(m, k, e) ==
  [x \in (DOMAIN m) \cup {k} |->
     IF x # k THEN m[x]
     ELSE IF k \in DOMAIN m THEN [e EXCEPT !.expires_at = m[k].expires_at] ELSE e]

\* HashMap::insert
hm_insert(m, k, e) == [x \in (DOMAIN m) \cup {k} |-> IF x = k THEN e ELSE m[x]]

\* HashMap::remove
hm_remove(m, k) == [x \in (DOMAIN m) \ {k} |-> m[x]]

\* HashMap::get(..).cloned()
hm_get(m, k) == IF k \in DOMAIN m THEN Some(m[k]) ELSE None

RECURSIVE hm_remove_all(_, _)
hm_remove_all(m, ks) ==
  IF ks = <<>> THEN m ELSE hm_remove_all(hm_remove(m, Head(ks)), Tail(ks))

\* the orders HashMap::iter may visit the keys of a map in
iter_orders(m) ==
  LET n == Cardinality(DOMAIN m)
  IN  { s \in [1..n -> DOMAIN m] : \A i, j \in 1..n : i # j => s[i] # s[j] }

NoCall == [fn |-> "none", key |-> <<>>, value |-> <<>>, expiry_in_ms |-> 0, pattern |-> <<>>]

\* RwLock::write().await / RwLock::read().await resolve
can_write(t) == rw_readers = {} /\ rw_writer = {}
can_read(t) == rw_writer = {}

Range(s) == { s[i] : i \in DOMAIN s }

\* the read guard outlives the block it was taken in
read_guard_kept(readers, t) == readers

\* the read guard goes out of scope (store.rs lines 113, 145)
drop_read_guard(readers, t) == readers \ {t}

\* the write guard outlives the call it was taken in
write_guard_kept(writer, t) == writer

\* the write guard goes out of scope (store.rs lines 94, 105, 120, 152)
drop_write_guard(writer, t) == writer \ {t}

\* execute_command's reply for what the store call returned (main.rs for
\* Set and Get; the KEYS reply is an array of the keys, sorted)
RECURSIVE lex_less(_, _)
lex_less(a, b) ==
  IF b = <<>> THEN FALSE
  ELSE IF a = <<>> THEN TRUE
  ELSE IF a[1] # b[1] THEN a[1] < b[1]
  ELSE lex_less(Tail(a), Tail(b))

RECURSIVE sort_insert(_, _)
sort_insert(s, k) ==
  IF s = <<>> THEN <<k>>
  ELSE IF lex_less(k, Head(s)) THEN <<k>> \o s
  ELSE <<Head(s)>> \o sort_insert(Tail(s), k)

\* the keys in the order keys returned them
sort_keys_skipped(s) == s

RECURSIVE sort_keys(_)
sort_keys(s) == IF s = <<>> THEN <<>> ELSE sort_insert(sort_keys(Tail(s)), Head(s))

keys_reply(ks) == [kind |-> "array", body |-> sort_keys(ks)]

OkReply == [kind |-> "simple", body |-> <<79, 75>>]

get_reply(r) ==
  IF r = None THEN [kind |-> "null", body |-> <<>>]
  ELSE [kind |-> "simple", body |-> r[1]]

NoReply == [kind |-> "none", body |-> <<>>]

\* a completed insert into key k: the history it leaves
Inserted(t, k) ==
  /\ gone' = [gone EXCEPT ![k] = FALSE]
  /\ lastw' = [lastw EXCEPT ![k] = Some(call[t])]
  /\ prior' = [u \in Tasks |->
                 IF call[u].fn = "get" /\ call[u].key = k THEN None ELSE prior[u]]
  /\ writes' = IF phase = "writers"
               THEN writes \cup {[task |-> t, key |-> k, entry |-> value[t][1]]}
               ELSE writes

(* ---- Database::set ---- *)
\* lines 87-92: build the value, then await the write lock
set_enter(t, k, v) ==
  /\ call' = [call EXCEPT ![t] = [NoCall EXCEPT !.fn = "set", !.key = k, !.value = v]]
  /\ value' = [value EXCEPT ![t] = Some(ExpiringValue(v, None))]
  /\ pc' = [pc EXCEPT ![t] = "set_lock"]
  /\ UNCHANGED << db, rw_readers, rw_writer, clock, now, expired_keys, valid_keys,
                  ret, resp, phase, gone, lastw, prior, writes >>

\* a connection task calls set
set_begin(t, k, v) ==
  /\ pc[t] = "idle" /\ ops < MaxOps /\ phase \in {"mixed", "writers"}
  /\ set_enter(t, k, v)
  /\ ops' = ops + 1
  /\ UNCHANGED << parse_vars, io_vars >>

\* line 92: the write guard is granted
set_lock(t) ==
  /\ pc[t] = "set_lock" /\ can_write(t)
  /\ rw_writer' = {t}
  /\ pc' = [pc EXCEPT ![t] = "set_insert"]
  /\ UNCHANGED << db, rw_readers, clock, call, now, value, expired_keys, valid_keys,
                  ret, resp, ops, phase, gone, lastw, prior, writes, parse_vars, io_vars >>

\* lines 93-94: insert, drop the guard, return; execute_command line 155
set_insert(t) ==
  /\ pc[t] = "set_insert"
  /\ db' = hm_insert(db, call[t].key, value[t][1])
  /\ rw_writer' = drop_write_guard(rw_writer, t)
  /\ ret' = [ret EXCEPT ![t] = None]
  /\ resp' = [resp EXCEPT ![t] = OkReply]
  /\ pc' = [pc EXCEPT ![t] = "write_all"]
  /\ Inserted(t, call[t].key)
  /\ UNCHANGED << rw_readers, clock, call, now, value, expired_keys, valid_keys,
                  ops, phase, parse_vars, io_vars >>

(* ---- Database::set_with_expire ---- *)
\* lines 96-103: read the clock, build the value, then await the write lock
set_with_expire_enter(t, k, v, expiry_in_ms) ==
  /\ call' = [call EXCEPT ![t] = [NoCall EXCEPT !.fn = "set_with_expire", !.key = k,
                                                !.value = v, !.expiry_in_ms = expiry_in_ms]]
  /\ now' = [now EXCEPT ![t] = Some(clock)]
  /\ value' = [value EXCEPT ![t] = Some(ExpiringValue(v, Some(clock + expiry_in_ms)))]
  /\ pc' = [pc EXCEPT ![t] = "swe_lock"]
  /\ UNCHANGED << db, rw_readers, rw_writer, clock, expired_keys, valid_keys,
                  ret, resp, phase, gone, lastw, prior, writes >>

\* a connection task calls set_with_expire
set_with_expire_begin(t, k, v, expiry_in_ms) ==
  /\ pc[t] = "idle" /\ ops < MaxOps /\ phase \in {"mixed", "writers"}
  /\ set_with_expire_enter(t, k, v, expiry_in_ms)
  /\ ops' = ops + 1
  /\ UNCHANGED << parse_vars, io_vars >>

\* line 103: the write guard is granted
set_with_expire_lock(t) ==
  /\ pc[t] = "swe_lock" /\ can_write(t)
  /\ rw_writer' = {t}
  /\ pc' = [pc EXCEPT ![t] = "swe_insert"]
  /\ UNCHANGED << db, rw_readers, clock, call, now, value, expired_keys, valid_keys,
                  ret, resp, ops, phase, gone, lastw, prior, writes, parse_vars, io_vars >>

\* lines 104-105: insert, drop the guard, return; execute_command line 151
set_with_expire_insert(t) ==
  /\ pc[t] = "swe_insert"
  /\ db' = hm_insert(db, call[t].key, value[t][1])
  /\ rw_writer' = drop_write_guard(rw_writer, t)
  /\ ret' = [ret EXCEPT ![t] = None]
  /\ resp' = [resp EXCEPT ![t] = OkReply]
  /\ pc' = [pc EXCEPT ![t] = "write_all"]
  /\ Inserted(t, call[t].key)
  /\ UNCHANGED << rw_readers, clock, call, now, value, expired_keys, valid_keys,
                  ops, phase, parse_vars, io_vars >>

(* ---- Database::get ---- *)
\* lines 107-111: read the clock, then await the read lock
get_enter(t, k) ==
  /\ call' = [call EXCEPT ![t] = [NoCall EXCEPT !.fn = "get", !.key = k]]
  /\ now' = [now EXCEPT ![t] = Some(clock)]
  /\ prior' = [prior EXCEPT ![t] = IF k \in KeySet THEN lastw[k] ELSE None]
  /\ pc' = [pc EXCEPT ![t] = "get_rlock"]
  /\ UNCHANGED << db, rw_readers, rw_writer, clock, value, expired_keys, valid_keys,
                  ret, resp, phase, gone, lastw, writes >>

\* a connection task calls get
get_begin(t, k) ==
  /\ pc[t] = "idle" /\ ops < MaxOps /\ phase \in {"mixed", "readers"}
  /\ get_enter(t, k)
  /\ ops' = ops + 1
  /\ UNCHANGED << parse_vars, io_vars >>

\* line 111: a read guard is granted
get_rlock(t) ==
  /\ pc[t] = "get_rlock" /\ can_read(t)
  /\ rw_readers' = rw_readers \cup {t}
  /\ pc' = [pc EXCEPT ![t] = "get_read"]
  /\ UNCHANGED << db, rw_writer, clock, call, now, value, expired_keys, valid_keys,
                  ret, resp, ops, phase, gone, lastw, prior, writes, parse_vars, io_vars >>

\* lines 112-124: clone the entry, drop the read guard, match on it:
\* expired -> await the write lock; otherwise return
get_read(t) ==
  /\ pc[t] = "get_read"
  /\ rw_readers' = drop_read_guard(rw_readers, t)
  /\ LET v == hm_get(db, call[t].key)
     IN  /\ value' = [value EXCEPT ![t] = v]
         /\ IF v # None /\ is_expired(v[1].expires_at, now[t][1])
            THEN /\ pc' = [pc EXCEPT ![t] = "get_wlock"]
                 /\ UNCHANGED << ret, resp >>
            ELSE /\ ret' = [ret EXCEPT ![t] = IF v = None THEN None ELSE Some(v[1].value)]
                 /\ resp' = [resp EXCEPT ![t] = get_reply(ret'[t])]
                 /\ pc' = [pc EXCEPT ![t] = "write_all"]
  /\ UNCHANGED << db, rw_writer, clock, call, now, expired_keys, valid_keys,
                  ops, phase, gone, lastw, prior, writes, parse_vars, io_vars >>

\* line 118: the write guard is granted
get_wlock(t) ==
  /\ pc[t] = "get_wlock" /\ can_write(t)
  /\ rw_writer' = {t}
  /\ pc' = [pc EXCEPT ![t] = "get_remove"]
  /\ UNCHANGED << db, rw_readers, clock, call, now, value, expired_keys, valid_keys,
                  ret, resp, ops, phase, gone, lastw, prior, writes, parse_vars, io_vars >>

\* the expired key is reported absent and left in the map
get_removal_skipped(m, k) == m

\* what line 119 does to the map
get_removal(m, k) == hm_remove(m, k)

\* lines 119-121: remove the key, drop the guard, return None
get_remove(t) ==
  /\ pc[t] = "get_remove"
  /\ db' = get_removal(db, call[t].key)
  /\ rw_writer' = drop_write_guard(rw_writer, t)
  /\ ret' = [ret EXCEPT ![t] = None]
  /\ resp' = [resp EXCEPT ![t] = get_reply(None)]
  /\ pc' = [pc EXCEPT ![t] = "write_all"]
  /\ gone' = [gone EXCEPT ![call[t].key] = TRUE]
  /\ UNCHANGED << rw_readers, clock, call, now, value, expired_keys, valid_keys,
                  ops, phase, lastw, prior, writes, parse_vars, io_vars >>

(* ---- Database::keys ---- *)
\* lines 128-134: read the clock, then await the read lock
keys_begin(t, pattern) ==
  /\ pc[t] = "idle" /\ ops < MaxOps /\ phase = "mixed"
  /\ call' = [call EXCEPT ![t] = [NoCall EXCEPT !.fn = "keys", !.pattern = pattern]]
  /\ now' = [now EXCEPT ![t] = Some(clock)]
  /\ pc' = [pc EXCEPT ![t] = "keys_rlock"]
  /\ ops' = ops + 1
  /\ UNCHANGED << db, rw_readers, rw_writer, clock, value, expired_keys, valid_keys,
                  ret, resp, phase, gone, lastw, prior, writes, parse_vars, io_vars >>

\* line 134: a read guard is granted
keys_rlock(t) ==
  /\ pc[t] = "keys_rlock" /\ can_read(t)
  /\ rw_readers' = rw_readers \cup {t}
  /\ pc' = [pc EXCEPT ![t] = "keys_scan"]
  /\ UNCHANGED << db, rw_writer, clock, call, now, value, expired_keys, valid_keys,
                  ret, resp, ops, phase, gone, lastw, prior, writes, parse_vars, io_vars >>

\* lines 135-148: partition the keys in iteration order, drop the read guard,
\* then await the write lock
keys_scan(t) ==
  /\ pc[t] = "keys_scan"
  /\ rw_readers' = drop_read_guard(rw_readers, t)
  /\ \E ord \in iter_orders(db) :
       /\ expired_keys' = [expired_keys EXCEPT ![t] =
            SelectSeq(ord, LAMBDA k : is_expired(db[k].expires_at, now[t][1]))]
       /\ valid_keys' = [valid_keys EXCEPT ![t] =
            SelectSeq(ord, LAMBDA k : ~is_expired(db[k].expires_at, now[t][1]))]
  /\ pc' = [pc EXCEPT ![t] = "keys_wlock"]
  /\ UNCHANGED << db, rw_writer, clock, call, now, value, ret, resp,
                  ops, phase, gone, lastw, prior, writes, parse_vars, io_vars >>

\* line 148: the write guard is granted
keys_wlock(t) ==
  /\ pc[t] = "keys_wlock" /\ can_write(t)
  /\ rw_writer' = {t}
  /\ pc' = [pc EXCEPT ![t] = "keys_remove"]
  /\ UNCHANGED << db, rw_readers, clock, call, now, value, expired_keys, valid_keys,
                  ret, resp, ops, phase, gone, lastw, prior, writes, parse_vars, io_vars >>

\* line 154: what keys returns for a pattern
keys_result(pattern, valid) == valid

\* lines 149-154: remove the expired keys, drop the guard, return valid_keys
keys_remove(t) ==
  /\ pc[t] = "keys_remove"
  /\ db' = hm_remove_all(db, expired_keys[t])
  /\ rw_writer' = drop_write_guard(rw_writer, t)
  /\ ret' = [ret EXCEPT ![t] = keys_result(call[t].pattern, valid_keys[t])]
  /\ resp' = [resp EXCEPT ![t] = keys_reply(ret'[t])]
  /\ pc' = [pc EXCEPT ![t] = "write_all"]
  /\ UNCHANGED << rw_readers, clock, call, now, value, expired_keys, valid_keys,
                  ops, phase, gone, lastw, prior, writes, parse_vars, io_vars >>

(* ---- execute_command, handle_stream ---- *)
\* main.rs line 166: the reply is written and the handler loops
write_all(t) ==
  /\ pc[t] = "write_all"
  /\ pc' = [pc EXCEPT ![t] = "idle"]
  /\ call' = [call EXCEPT ![t] = NoCall]
  /\ now' = [now EXCEPT ![t] = None]
  /\ value' = [value EXCEPT ![t] = None]
  /\ expired_keys' = [expired_keys EXCEPT ![t] = <<>>]
  /\ valid_keys' = [valid_keys EXCEPT ![t] = <<>>]
  /\ ret' = [ret EXCEPT ![t] = None]
  /\ resp' = [resp EXCEPT ![t] = NoReply]
  /\ prior' = [prior EXCEPT ![t] = None]
  /\ req' = [req EXCEPT ![t] = NoRequest]
  /\ UNCHANGED << db, rw_readers, rw_writer, clock, ops, phase, gone, lastw,
                  writes, parse_vars, snapshot, file, boot, conn >>

\* time passes
Tick ==
  /\ clock < MaxClock
  /\ clock' = clock + 1
  /\ UNCHANGED << db, rw_readers, rw_writer, pc, call, now, value, expired_keys,
                  valid_keys, ret, resp, ops, phase, gone, lastw, prior, writes,
                  parse_vars, io_vars >>

StoreInit(ph) ==
  /\ db = << >>
  /\ rw_readers = {} /\ rw_writer = {}
  /\ clock = 0
  /\ pc = [t \in Tasks |-> "idle"]
  /\ call = [t \in Tasks |-> NoCall]
  /\ now = [t \in Tasks |-> None]
  /\ value = [t \in Tasks |-> None]
  /\ expired_keys = [t \in Tasks |-> <<>>]
  /\ valid_keys = [t \in Tasks |-> <<>>]
  /\ ret = [t \in Tasks |-> None]
  /\ resp = [t \in Tasks |-> NoReply]
  /\ ops = 0
  /\ phase = ph
  /\ gone = [k \in KeySet |-> FALSE]
  /\ lastw = [k \in KeySet |-> None]
  /\ prior = [t \in Tasks |-> None]
  /\ writes = {}

Init ==
  /\ StoreInit("mixed")
  /\ ParseIdle
  /\ IoIdle

\* every writer has returned: the readers start
start_readers ==
  /\ phase = "writers"
  /\ writes # {}
  /\ \A t \in Tasks : pc[t] = "idle"
  /\ phase' = "readers"
  /\ UNCHANGED << db, rw_readers, rw_writer, clock, pc, call, now, value,
                  expired_keys, valid_keys, ret, resp, ops, gone, lastw, prior,
                  writes, parse_vars, io_vars >>

Step(t) ==
  \/ set_lock(t) \/ set_insert(t)
  \/ set_with_expire_lock(t) \/ set_with_expire_insert(t)
  \/ get_rlock(t) \/ get_read(t) \/ get_wlock(t) \/ get_remove(t)
  \/ keys_rlock(t) \/ keys_scan(t) \/ keys_wlock(t) \/ keys_remove(t)
  \/ write_all(t)

Next ==
  \/ \E t \in Tasks, k \in KeySet : set_begin(t, k, ValueOf(t))
  \/ \E t \in Tasks, k \in KeySet, ms \in TtlSet :
       set_with_expire_begin(t, k, ValueOf(t), ms)
  \/ \E t \in Tasks, k \in KeySet : get_begin(t, k)
  \/ \E t \in Tasks, p \in PatternSet : keys_begin(t, p)
  \/ \E t \in Tasks : Step(t)
  \/ Tick

Spec == Init /\ [][Next]_vars

(* the same, with the lock and the runtime scheduling fairly *)
\* RwLock::read().await / write().await of t resolves
LockGranted(t) ==
  \/ set_lock(t) \/ set_with_expire_lock(t)
  \/ get_rlock(t) \/ get_wlock(t)
  \/ keys_rlock(t) \/ keys_wlock(t)

\* t runs from one await to the next while it holds a guard
GuardedStep(t) ==
  \/ set_insert(t) \/ set_with_expire_insert(t)
  \/ get_read(t) \/ get_remove(t)
  \/ keys_scan(t) \/ keys_remove(t)

\* tokio's RwLock queues its waiters first-in first-out, so a waiter is
\* granted the lock if the lock keeps becoming free, and the runtime keeps
\* polling a task that is ready.  Nothing is assumed of the network: a task
\* may stay at its stream read or write forever.
Fairness ==
  \A t \in Tasks : SF_vars(LockGranted(t)) /\ WF_vars(GuardedStep(t))

\* the calls of Next on one key, with the TTL that expires and the pattern
\* that matches: which key, TTL or pattern a call names makes no difference
\* to the lock
NextFair ==
  \/ \E t \in Tasks : set_begin(t, <<97>>, ValueOf(t))
  \/ \E t \in Tasks : set_with_expire_begin(t, <<97>>, ValueOf(t), 0)
  \/ \E t \in Tasks : get_begin(t, <<97>>)
  \/ \E t \in Tasks : keys_begin(t, Star)
  \/ \E t \in Tasks : Step(t)
  \/ Tick

SpecFair == Init /\ [][NextFair]_vars /\ Fairness

(* writers run to completion, then readers *)
InitWriters ==
  /\ StoreInit("writers")
  /\ ParseIdle
  /\ IoIdle

StepWriters(t) ==
  \/ set_lock(t) \/ set_insert(t)
  \/ set_with_expire_lock(t) \/ set_with_expire_insert(t)
  \/ get_rlock(t) \/ get_read(t) \/ get_wlock(t) \/ get_remove(t)
  \/ write_all(t)

NextWriters ==
  \/ \E t \in Tasks, k \in KeySet : set_begin(t, k, ValueOf(t))
  \/ \E t \in Tasks, k \in KeySet, ms \in TtlSet :
       set_with_expire_begin(t, k, ValueOf(t), ms)
  \/ start_readers
  \/ \E t \in Tasks, k \in KeySet : get_begin(t, k)
  \/ \E t \in Tasks : StepWriters(t)
  \/ Tick

SpecWriters == InitWriters /\ [][NextWriters]_vars

(* ---- decoding one request ---- *)
\* handle_stream has read one request frame
InitParse ==
  /\ StoreInit("mixed")
  /\ tokens \in TokenSeqs
  /\ buf = encode_request(tokens)
  /\ parsed = None
  /\ overflow_checks \in BOOLEAN
  /\ IoIdle

\* parse.rs parse_command is applied to the frame
decode_parse_rs ==
  /\ parsed = None
  /\ parsed' = Some([by |-> "parse.rs", res |-> parse_command(buf, overflow_checks)])
  /\ UNCHANGED << store_vars, tokens, buf, overflow_checks, io_vars >>

\* main.rs parse_command is applied to the frame
decode_main_rs ==
  /\ parsed = None
  /\ parsed' = Some([by |-> "main.rs", res |-> main_parse_command(buf, overflow_checks)])
  /\ UNCHANGED << store_vars, tokens, buf, overflow_checks, io_vars >>

NextParse == decode_parse_rs \/ decode_main_rs

SpecParse == InitParse /\ [][NextParse]_vars

(* ---- decoding one snapshot length (store.rs length_encode) ---- *)
\* Option<(usize, usize)>, or the panic of an index past the slice
LenSome(num, used) == [kind |-> "some", num |-> num, used |-> used]
LenNone == [kind |-> "none", num |-> 0, used |-> 0]
LenPanic == [kind |-> "panic", num |-> 0, used |-> 0]

\* u32::from_be_bytes
from_be_bytes(b) == ((b[1] * 256 + b[2]) * 256 + b[3]) * 256 + b[4]

\* the six low bits are passed on unmasked
low6_unmasked(b) == b

\* buf[0] & (64u8 - 1)
low6(b) == b % 64

\* length_encode on the slice b; buf[0] & mask is the two high bits in place
length_encode(b) ==
  IF Len(b) < 1 THEN LenPanic
  ELSE LET form == (b[1] \div 64) * 64
       IN  IF form = 0 THEN LenSome(from_be_bytes(<<0, 0, 0, b[1]>>), 1)
           ELSE IF form = 64 THEN
             IF Len(b) < 2 THEN LenPanic
             ELSE LenSome(from_be_bytes(<<0, 0, low6(b[1]), b[2]>>), 2)
           ELSE IF form = 128 THEN
             IF Len(b) < 5 THEN LenPanic
             ELSE LenSome(from_be_bytes(SubSeq(b, 2, 5)), 5)
           ELSE LenNone

(* ---- loading the snapshot (store.rs serialize, Database::new) ---- *)
\* let mut buf = [0u8; 1024]
BufSize == 1024

\* reader.read(&mut buf): the first bytes of the file in the zeroed array
read_buf(f) ==
  IF Len(f) >= BufSize THEN SubSeq(f, 1, BufSize)
  ELSE f \o [i \in 1..(BufSize - Len(f)) |-> 0]

\* buf.iter().position(|&b| b == 0xfb), counted from 0; None when absent
fb_position(b) ==
  IF \E i \in 1..Len(b) : b[i] = 251
  THEN Some((CHOOSE i \in 1..Len(b) : b[i] = 251 /\ \A j \in 1..(i - 1) : b[j] # 251) - 1)
  ELSE None

\* u64::from_le_bytes
RECURSIVE from_le_bytes(_)
from_le_bytes(b) == IF b = <<>> THEN 0 ELSE b[1] + 256 * from_le_bytes(Tail(b))

\* String::from_utf8(..).is_ok(): the well-formed UTF-8 byte sequences
RECURSIVE from_utf8_ok(_)
from_utf8_ok(b) ==
  LET cont(i) == Len(b) >= i /\ b[i] \in 128..191
  IN
  IF b = <<>> THEN TRUE
  ELSE IF b[1] < 128 THEN from_utf8_ok(Tail(b))
  ELSE IF b[1] \in 194..223 THEN cont(2) /\ from_utf8_ok(SubSeq(b, 3, Len(b)))
  ELSE IF b[1] \in 224..239 THEN
    /\ cont(2) /\ cont(3)
    /\ (b[1] = 224 => b[2] >= 160)
    /\ (b[1] = 237 => b[2] <= 159)
    /\ from_utf8_ok(SubSeq(b, 4, Len(b)))
  ELSE IF b[1] \in 240..244 THEN
    /\ cont(2) /\ cont(3) /\ cont(4)
    /\ (b[1] = 240 => b[2] >= 144)
    /\ (b[1] = 244 => b[2] <= 143)
    /\ from_utf8_ok(SubSeq(b, 5, Len(b)))
  ELSE FALSE

KvPanic == [kind |-> "panic", key |-> <<>>, value |-> ExpiringValue(<<>>, None), used |-> 0]

\* the type byte after the timestamp is taken for the first length byte
kv_start_on_type_byte(is_expired_) == IF is_expired_ THEN 9 ELSE 1

\* let mut pos = if is_expired { 10 } else { 1 }
kv_start(is_expired_) == IF is_expired_ THEN 10 ELSE 1

\* serialize_kv on the slice b: (key, value, offset behind the record),
\* or the panic of an unwrap or an index past the slice
serialize_kv(b) ==
  IF Len(b) < 1 THEN KvPanic
  ELSE
    LET is_expired_ == b[1] = 252
    IN
    IF is_expired_ /\ Len(b) < 9 THEN KvPanic
    ELSE
      LET expires_at == IF is_expired_ THEN Some(from_le_bytes(SubSeq(b, 2, 9))) ELSE None
          pos0 == kv_start(is_expired_)
      IN
      IF pos0 > Len(b) THEN KvPanic
      ELSE
        LET kl == length_encode(SliceFrom(b, pos0))
            pos1 == pos0 + kl.used
        IN
        IF kl.kind # "some" THEN KvPanic
        ELSE IF pos1 + kl.num > Len(b) THEN KvPanic
        ELSE IF ~from_utf8_ok(SubSeq(b, pos1 + 1, pos1 + kl.num)) THEN KvPanic
        ELSE
          LET key == SubSeq(b, pos1 + 1, pos1 + kl.num)
              pos2 == pos1 + kl.num
              vl == length_encode(SliceFrom(b, pos2))
              pos3 == pos2 + vl.used
          IN
          IF vl.kind # "some" THEN KvPanic
          ELSE IF pos3 + vl.num > Len(b) THEN KvPanic
          ELSE IF ~from_utf8_ok(SubSeq(b, pos3 + 1, pos3 + vl.num)) THEN KvPanic
          ELSE [kind |-> "ok", key |-> key,
                value |-> ExpiringValue(SubSeq(b, pos3 + 1, pos3 + vl.num), expires_at),
                used |-> pos3 + vl.num]

Loaded(m) == [kind |-> "ok", db |-> m]
LoadPanic == [kind |-> "panic", db |-> << >>]

\* serialize: the loop with `left` records to read from offset pos of buf
RECURSIVE serialize_loop(_, _, _, _, _)
serialize_loop(b, pos, left, m, now_) ==
  IF left = 0 THEN Loaded(m)
  ELSE IF pos > Len(b) THEN LoadPanic
  ELSE LET kv == serialize_kv(SliceFrom(b, pos))
       IN  IF kv.kind # "ok" THEN LoadPanic
           ELSE serialize_loop(b, pos + kv.used, left - 1,
                               IF is_expired(kv.value.expires_at, now_)
                               THEN m ELSE hm_insert(m, kv.key, kv.value),
                               now_)

\* serialize on the bytes of the file, at time now_
serialize(f, now_) ==
  LET b == read_buf(f)
      fb_pos == fb_position(b)
  IN
  IF fb_pos = None THEN LoadPanic
  ELSE
    LET pos0 == fb_pos[1] + 1
    IN
    IF pos0 > Len(b) THEN LoadPanic
    ELSE
      LET hashtable_size == length_encode(SliceFrom(b, pos0))
          pos1 == pos0 + hashtable_size.used
      IN
      IF hashtable_size.kind # "some" THEN LoadPanic
      ELSE IF pos1 > Len(b) THEN LoadPanic
      ELSE
        LET exprie_hashtable_size == length_encode(SliceFrom(b, pos1))
            pos2 == pos1 + exprie_hashtable_size.used
        IN
        IF exprie_hashtable_size.kind # "some" THEN LoadPanic
        ELSE serialize_loop(b, pos2, hashtable_size.num, << >>, now_)

(* ---- the snapshot files the server is started on ---- *)
\* records in a snapshot
MaxRecords == 3

\* a length in the 6-bit, 14-bit or 32-bit form
encode_length(n, form) ==
  IF form = 1 THEN <<n>>
  ELSE IF form = 2 THEN <<64 + (n \div 256), n % 256>>
  ELSE <<128, 0, 0, n \div 256, n % 256>>

RECURSIVE to_le_bytes(_, _)
to_le_bytes(n, count) ==
  IF count = 0 THEN <<>> ELSE <<n % 256>> \o to_le_bytes(n \div 256, count - 1)

\* one record: [0xFC, 8 bytes of expiry,] type byte 0, key, value
encode_record(r) ==
  (IF r.expires_at = None THEN <<>> ELSE <<252>> \o to_le_bytes(r.expires_at[1], 8))
  \o <<0>>
  \o encode_length(Len(r.key), r.form) \o r.key
  \o encode_length(Len(r.value), 1) \o r.value

RECURSIVE encode_records(_)
encode_records(rs) ==
  IF rs = <<>> THEN <<>> ELSE encode_record(Head(rs)) \o encode_records(Tail(rs))

\* "REDIS0011", database selector 0
SnapshotHeader == <<82, 69, 68, 73, 83, 48, 48, 49, 49, 254, 0>>

CountExpiring(rs) == Cardinality({ i \in 1..Len(rs) : rs[i].expires_at # None })

\* a well-formed snapshot of the records rs
encode_snapshot(rs) ==
  SnapshotHeader \o <<251>> \o encode_length(Len(rs), 1)
  \o encode_length(CountExpiring(rs), 1) \o encode_records(rs)

\* the snapshot of rs, malformed or truncated in one way
damaged_snapshot(rs, damage) ==
  IF damage = "no_marker" THEN
    SnapshotHeader \o encode_length(Len(rs), 1)
    \o encode_length(CountExpiring(rs), 1) \o encode_records(rs)
  ELSE IF damage = "unsupported_length" THEN
    SnapshotHeader \o <<251>> \o <<192 + Len(rs)>>
    \o encode_length(CountExpiring(rs), 1) \o encode_records(rs)
  ELSE IF damage = "not_utf8" THEN
    encode_snapshot(<<[rs[1] EXCEPT !.key = <<255>>]>> \o Tail(rs))
  ELSE IF damage = "truncated" THEN
    SubSeq(encode_snapshot(rs), 1, Len(encode_snapshot(rs)) - Len(encode_record(rs[Len(rs)])))
  ELSE encode_snapshot(rs)

DamageSet == { "no_marker", "unsupported_length", "not_utf8", "truncated" }

RecordSet ==
  { [key |-> k, value |-> <<120>>, expires_at |-> e, form |-> f] :
      k \in KeySet, e \in { None, Some(0), Some(1) }, f \in { 1, 2, 5 } }

RecordSeqs == UNION { [1..n -> RecordSet] : n \in 0..MaxRecords }

\* main is about to call Database::new; --dir and --dbfilename name a file
\* that opens
InitSnapshot ==
  /\ StoreInit("mixed")
  /\ ParseIdle
  /\ snapshot \in { [records |-> rs, damage |-> "none"] : rs \in RecordSeqs }
               \cup { [records |-> rs, damage |-> d] :
                        rs \in RecordSeqs \ { <<>> }, d \in DamageSet }
  /\ file = Some(damaged_snapshot(snapshot.records, snapshot.damage))
  /\ boot = "starting"
  /\ conn = [t \in Tasks |-> "open"]
  /\ req = [t \in Tasks |-> NoRequest]

\* time passes before the server is started
tick_before_boot ==
  /\ boot = "starting"
  /\ Tick

\* Database::new: the file is read by serialize at the time of the clock; a
\* panic of serialize unwinds through main
database_new ==
  /\ boot = "starting"
  /\ LET loaded == IF file = None THEN Loaded(<< >>) ELSE serialize(file[1], clock)
     IN  IF loaded.kind = "ok"
         THEN db' = loaded.db /\ boot' = "serving"
         ELSE db' = db /\ boot' = "aborted"
  /\ UNCHANGED << rw_readers, rw_writer, clock, pc, call, now, value, expired_keys,
                  valid_keys, ret, resp, ops, phase, gone, lastw, prior, writes,
                  parse_vars, snapshot, file, conn, req >>

NextSnapshot == tick_before_boot \/ database_new

SpecSnapshot == InitSnapshot /\ [][NextSnapshot]_vars

(* ---- the connection handler (main.rs handle_stream) ---- *)
Frame(bytes, kind) == [bytes |-> bytes, kind |-> kind]

S_keys == <<107, 101, 121, 115>>
GetFrame == encode_request(<<to_ascii_uppercase(S_get), <<97>>>>)
PingFrame == encode_request(<<to_ascii_uppercase(S_ping)>>)

\* the requests the clients send: well-formed ones that main.rs knows, well-
\* formed ones it does not know or whose shape is wrong, and malformed ones
FrameSet ==
  { Frame(PingFrame, "valid"),
    Frame(encode_request(<<S_echo, <<107>>>>), "valid"),
    Frame(encode_request(<<S_set, <<97>>, <<120>>>>), "valid"),
    Frame(encode_request(<<S_set, <<97>>, <<120>>, S_px, <<48>>>>), "valid"),
    Frame(GetFrame, "valid"),
    Frame(encode_request(<<S_keys, Star>>), "unknown_name"),
    Frame(encode_request(<<S_get, <<97>>, <<98>>>>), "wrong_shape"),
    \* "$2\r\n$3\r\nGET\r\n$1\r\na\r\n"
    Frame([GetFrame EXCEPT ![1] = BULK_STRING], "bad_array_marker"),
    \* "*2\r\n$3\r\nGET\r\n:1\r\na\r\n"
    Frame([GetFrame EXCEPT ![14] = 58], "bad_bulk_marker"),
    \* "*3\r\n$3\r\nSET\r\n$1\r\na\r\n$:\r\nabcdefghij\r\n"
    Frame(<<ARRAY, 51, CR, LF>> \o encode_bulk_strings(<<to_ascii_uppercase(S_set), <<97>>>>)
          \o <<BULK_STRING, 58, CR, LF>> \o [i \in 1..10 |-> 96 + i] \o <<CR, LF>>,
          "non_digit_length"),
    \* "*1\r\n$4\r\nPING"
    Frame(SubSeq(PingFrame, 1, Len(PingFrame) - 2), "truncated"),
    \* "*2\r\n$3\r\nGET\r\n$1\r\n"
    Frame(SubSeq(GetFrame, 1, Len(GetFrame) - 3), "truncated") }

\* main.rs parse_command on what the task read
Parsed(t) == main_parse_command(req[t].bytes, overflow_checks)

\* line 173: stream.read returns Ok(n), n > 0, with one request frame
stream_read(t, f) ==
  /\ boot = "serving" /\ conn[t] = "open" /\ pc[t] = "idle" /\ ops < MaxOps
  /\ req' = [req EXCEPT ![t] = f]
  /\ pc' = [pc EXCEPT ![t] = "parse"]
  /\ ops' = ops + 1
  /\ UNCHANGED << db, rw_readers, rw_writer, clock, call, now, value, expired_keys,
                  valid_keys, ret, resp, phase, gone, lastw, prior, writes,
                  parse_vars, snapshot, file, boot, conn >>

\* lines 173-176, 187: stream.read returns an error or Ok(0); the handler
\* returns and the stream is dropped
stream_closed(t) ==
  /\ boot = "serving" /\ conn[t] = "open" /\ pc[t] = "idle"
  /\ conn' = [conn EXCEPT ![t] = "closed"]
  /\ pc' = [pc EXCEPT ![t] = "done"]
  /\ UNCHANGED << db, rw_readers, rw_writer, clock, call, now, value, expired_keys,
                  valid_keys, ret, resp, ops, phase, gone, lastw, prior, writes,
                  parse_vars, snapshot, file, boot, req >>

\* lines 178, 181-184: parse_command returns Err and the loop breaks, or it
\* panics and the task unwinds; either way the stream is dropped
parse_failed(t) ==
  /\ pc[t] = "parse" /\ Parsed(t).kind # "ok"
  /\ conn' = [conn EXCEPT ![t] = IF Parsed(t).kind = "panic" THEN "aborted" ELSE "closed"]
  /\ pc' = [pc EXCEPT ![t] = "done"]
  /\ UNCHANGED << db, rw_readers, rw_writer, clock, call, now, value, expired_keys,
                  valid_keys, ret, resp, ops, phase, gone, lastw, prior, writes,
                  parse_vars, snapshot, file, boot, req >>

\* "PONG"
S_PONG == <<80, 79, 78, 71>>

\* execute_command lines 144-147: Ping and Echo
execute_reply(t) ==
  /\ pc[t] = "parse" /\ Parsed(t).kind = "ok" /\ Parsed(t).cmd.tag \in {"Ping", "Echo"}
  /\ resp' = [resp EXCEPT ![t] =
       [kind |-> "simple",
        body |-> IF Parsed(t).cmd.tag = "Ping" THEN S_PONG ELSE Parsed(t).cmd.a]]
  /\ pc' = [pc EXCEPT ![t] = "write_all"]
  /\ UNCHANGED << db, rw_readers, rw_writer, clock, call, now, value, expired_keys,
                  valid_keys, ret, ops, phase, gone, lastw, prior, writes,
                  parse_vars, io_vars >>

\* execute_command lines 148-157: Set calls set_with_expire or set
execute_set(t) ==
  /\ pc[t] = "parse" /\ Parsed(t).kind = "ok" /\ Parsed(t).cmd.tag = "Set"
  /\ IF Parsed(t).cmd.px # None
     THEN set_with_expire_enter(t, Parsed(t).cmd.a, Parsed(t).cmd.b, Parsed(t).cmd.px[1])
     ELSE set_enter(t, Parsed(t).cmd.a, Parsed(t).cmd.b)
  /\ UNCHANGED << ops, parse_vars, io_vars >>

\* execute_command line 158: Get calls get
execute_get(t) ==
  /\ pc[t] = "parse" /\ Parsed(t).kind = "ok" /\ Parsed(t).cmd.tag = "Get"
  /\ get_enter(t, Parsed(t).cmd.a)
  /\ UNCHANGED << ops, parse_vars, io_vars >>

\* line 166 fails, line 179 returns the error: the stream is dropped
write_all_failed(t) ==
  /\ pc[t] = "write_all" /\ boot = "serving" /\ req[t] # NoRequest
  /\ conn' = [conn EXCEPT ![t] = "closed"]
  /\ pc' = [pc EXCEPT ![t] = "done"]
  /\ UNCHANGED << db, rw_readers, rw_writer, clock, call, now, value, expired_keys,
                  valid_keys, ret, resp, ops, phase, gone, lastw, prior, writes,
                  parse_vars, snapshot, file, boot, req >>

InitConn ==
  /\ StoreInit("mixed")
  /\ ParseIdle
  /\ IoIdle

NextConn ==
  \/ \E t \in Tasks, f \in FrameSet : stream_read(t, f)
  \/ \E t \in Tasks : stream_closed(t)
  \/ \E t \in Tasks : parse_failed(t)
  \/ \E t \in Tasks : execute_reply(t)
  \/ \E t \in Tasks : execute_set(t)
  \/ \E t \in Tasks : execute_get(t)
  \/ \E t \in Tasks : StepWriters(t)
  \/ \E t \in Tasks : write_all_failed(t)
  \/ Tick

SpecConn == InitConn /\ [][NextConn]_vars

(* ---- decoding one length field (parse.rs parse_lenght) ---- *)
\* bytes before the CR of a length field
MaxDigits == 3

\* '0', '1', '9', and the non-digits ':', '-', 'a'
LengthBytes == { 48, 49, 57, 58, 45, 97 }

LengthBufs ==
  UNION { { d \o <<CR, LF>> : d \in [1..n -> LengthBytes] } : n \in 0..MaxDigits }

InitLength ==
  /\ StoreInit("mixed")
  /\ tokens = <<>>
  /\ buf \in LengthBufs
  /\ parsed = None
  /\ overflow_checks \in BOOLEAN
  /\ IoIdle

\* parse_lenght is applied to the buffer
decode_length ==
  /\ parsed = None
  /\ parsed' = Some([by |-> "parse_lenght", res |-> parse_lenght(buf, overflow_checks)])
  /\ UNCHANGED << store_vars, tokens, buf, overflow_checks, io_vars >>

NextLength == decode_length

SpecLength == InitLength /\ [][NextLength]_vars

(* ---- the inputs of length_encode ---- *)
\* the four bytes after the leading byte: the first at most 127, so that the
\* 32-bit value stays below 2^31
VarintTails ==
  { <<b1, b2, b3, b4>> : b1 \in {0, 1, 127}, b2 \in {0, 255}, b3 \in {0, 255}, b4 \in {0, 1, 255} }

\* every leading byte, followed by four bytes
VarintBufs == { <<b0>> \o t : b0 \in 0..255, t \in VarintTails }

InitVarint ==
  /\ StoreInit("mixed")
  /\ tokens = <<>>
  /\ buf \in VarintBufs
  /\ parsed = None
  /\ overflow_checks = TRUE
  /\ IoIdle

\* length_encode is applied to the buffer
decode_varint ==
  /\ parsed = None
  /\ parsed' = Some([by |-> "length_encode", res |-> length_encode(buf)])
  /\ UNCHANGED << store_vars, tokens, buf, overflow_checks, io_vars >>

NextVarint == decode_varint

SpecVarint == InitVarint /\ [][NextVarint]_vars

(* ------------------------------- claims -------------------------------- *)

Returned(t, fn) == pc[t] = "write_all" /\ call[t].fn = fn

\* t has taken its first guard and not yet dropped its last one
InOperation(t) ==
  pc[t] \in { "set_insert", "swe_insert", "get_read", "get_wlock", "get_remove",
              "keys_scan", "keys_wlock", "keys_remove" }

\* C1: every store operation is one critical section: from an operation's
\* first lock acquisition to its last release no other task is granted the
\* write guard (shared read guards, which cannot mutate the map, are not
\* counted against the claim).
C1_OneCriticalSection ==
  [][\A t, u \in Tasks :
       (t # u /\ InOperation(t)) => ~(u \notin rw_writer /\ u \in rw_writer')]_vars

\* the writes issued for key k in the writers' phase
WritesTo(k) == { w \in writes : w.key = k }

NotElapsed(e) == e.expires_at = None \/ e.expires_at[1] >= clock

\* C2: after the writers have run to completion, the map holds for every
\* written key exactly the entry of one of the writes issued for it (value
\* and expiry of the same write), and a get of a key whose writes have not
\* expired returns the value of one of those writes.
C2_NoLostOrTornWrite ==
  /\ \A k \in DOMAIN db : \E w \in WritesTo(k) : w.entry = db[k]
  /\ \A t \in Tasks :
       (/\ phase = "readers"
        /\ Returned(t, "get")
        /\ WritesTo(call[t].key) # {}
        /\ \A w \in WritesTo(call[t].key) : NotElapsed(w.entry))
       => /\ ret[t] # None
          /\ \E w \in WritesTo(call[t].key) : ret[t] = Some(w.entry.value)

\* two tasks wrote the same key and a reader got a value back
C2_Witness ==
  \E t \in Tasks :
    /\ phase = "readers" /\ Returned(t, "get") /\ ret[t] # None
    /\ Cardinality({ w.task : w \in WritesTo(call[t].key) }) >= 2
    /\ \A w \in WritesTo(call[t].key) : NotElapsed(w.entry)

\* C3: the get that follows a completed set_with_expire(k, v, 0), with no
\* write to k in between, returns none; the get that follows a completed
\* set_with_expire(k, v, 100000) returns v.
C3_TtlZeroExpiresAtOnce ==
  \A t \in Tasks :
    (Returned(t, "get") /\ prior[t] # None /\ prior[t][1].fn = "set_with_expire")
    => /\ prior[t][1].expiry_in_ms = 0 => ret[t] = None
       /\ prior[t][1].expiry_in_ms = 100000 => ret[t] = Some(prior[t][1].value)

\* the entry a get returns, and the entries a keys scan lists, when read
\* from the map, are not older than `at`
FreshWhenRead(t, at) ==
  /\ (pc[t] = "get_read" /\ pc'[t] = "write_all" /\ ret'[t] # None)
     => ~(/\ value'[t][1].expires_at # None
          /\ value'[t][1].expires_at[1] < at)
  /\ (pc[t] = "keys_scan" /\ pc'[t] = "keys_wlock")
     => \A k \in Range(valid_keys'[t]) :
          ~(db[k].expires_at # None /\ db[k].expires_at[1] < at)

\* C4 as stated: no get returns, and no keys scan lists, an entry whose
\* expires_at is earlier than the clock at the moment the entry is read from
\* the map.
C4_AbsentAtReadTime == [][\A t \in Tasks : FreshWhenRead(t, clock)]_vars

\* C4 as amended: no get returns, and no keys scan lists, an entry whose
\* expires_at is earlier than the time the operation sampled when it began
\* (its local now).
C4_AbsentAtSampledTime == [][\A t \in Tasks : FreshWhenRead(t, now[t][1])]_vars

\* a get returned an entry that expires exactly at the time get had sampled
C4_Witness ==
  \E t \in Tasks :
    /\ Returned(t, "get") /\ ret[t] # None
    /\ value[t][1].expires_at = now[t]

\* C5: once a get has removed an expired key and returned none, the key is
\* out of the map until it is written again, and a keys scan made meanwhile
\* does not list it.
C5_RemovedOnExpiredGet ==
  /\ [](\A k \in KeySet : gone[k] => k \notin DOMAIN db)
  /\ [][\A t \in Tasks :
          (pc[t] = "keys_scan" /\ pc'[t] = "keys_wlock")
          => \A k \in KeySet : gone[k] => k \notin Range(valid_keys'[t])]_vars

\* a keys("*") call holds the read guard, about to scan, after a get removed
\* an expired key, while another key is in the map
C5_Witness ==
  \E t \in Tasks, k \in KeySet :
    /\ pc[t] = "keys_scan" /\ call[t].pattern = Star
    /\ gone[k] /\ DOMAIN db # {}

\* C6: the get that follows a completed set(k, v), with no write to k in
\* between, returns v whatever the clock says.
C6_PlainSetClearsTtl ==
  \A t \in Tasks :
    (Returned(t, "get") /\ prior[t] # None /\ prior[t][1].fn = "set")
    => ret[t] = Some(prior[t][1].value)

\* C7: keys(pattern) returns the live keys for "*" and the empty
\* sequence for every other pattern.
C7_OnlyWildcardMatches ==
  \A t \in Tasks :
    Returned(t, "keys")
    => IF call[t].pattern = Star THEN ret[t] = valid_keys[t] ELSE ret[t] = <<>>

Ascending(s) == \A i, j \in 1..Len(s) : i < j => lex_less(s[i], s[j])

Interpreted == parsed # None /\ parsed[1].by = "parse.rs"

\* C9: for every token sequence a well-formed frame decodes to,
\* parse_command returns a Command value; it never fails or aborts.
C9_InterpretationTotal == Interpreted => parsed[1].res.kind = "ok"

\* C10: a request [set, k, v, px, n] with px in any case and n a decimal
\* unsigned integer is interpreted as Set(k, v, Some(n)).
C10_PxTakesFifthToken ==
  (/\ parsed # None
   /\ Len(tokens) = 5
   /\ to_lowercase(tokens[1]) = S_set
   /\ to_lowercase(tokens[4]) = S_px
   /\ parse_u64(tokens[5]) # None)
  => parsed[1].res = Ok(Set(tokens[2], tokens[3], parse_u64(tokens[5])))

\* the statement of C10 restricted to the decoder of main.rs, which takes the
\* expiry from the fifth token (main.rs parse_set_arg)
MainRsPxTakesFifthToken ==
  (parsed # None /\ parsed[1].by = "main.rs") => C10_PxTakesFifthToken

\* a well-formed frame is decoded by parse_array to the tokens framed
WellFormedFramesDecode == parse_array(buf, overflow_checks) = [kind |-> "ok", array |-> tokens]

\* byte offset (from 0) of the i-th bulk string in the frame of tokens
offset_of(i) ==
  Len(<<ARRAY>> \o decimal(Len(tokens)) \o <<CR, LF>>)
  + Len(encode_bulk_strings(SubSeq(tokens, 1, i - 1)))

\* C16: decoding the frame "*N\r\n" followed by each of N strings as
\* "$len\r\n<bytes>\r\n" returns those N strings in the same order, and
\* each bulk string, decoded where it stands in the frame, yields its string
\* and consumes 1 + digits(len) + 2 + len + 2 bytes.
C16_ArrayRoundTrip ==
  Interpreted =>
    /\ parse_array(buf, overflow_checks) = [kind |-> "ok", array |-> tokens]
    /\ \A i \in 1..Len(tokens) :
         LET b == parse_bulk_string(SliceFrom(buf, offset_of(i)), overflow_checks)
         IN  /\ b.kind = "ok"
             /\ b.str = tokens[i]
             /\ b.used = 1 + Len(decimal(Len(tokens[i]))) + 2 + Len(tokens[i]) + 2

\* a frame of at least three strings, one of them with a two-digit length,
\* has been decoded
C16_Witness ==
  /\ Interpreted
  /\ Len(tokens) >= 3
  /\ \E i \in 1..Len(tokens) : Len(tokens[i]) >= 10
  /\ parse_array(buf, overflow_checks).array = tokens

\* the bytes of a length field before its CR
FieldDigits == SubSeq(buf, 1, Len(buf) - 2)

AllDigits(d) == \A i \in 1..Len(d) : d[i] \in 48..57

LengthDecoded == parsed # None /\ parsed[1].by = "parse_lenght"

\* C19: parse_lenght returns (decimal value, number of digits + 2) for a
\* buffer of ASCII digits followed by CR LF, and does not return a number
\* when a byte that is not an ASCII digit stands before the CR.
C19_LengthOrError ==
  LengthDecoded =>
    IF AllDigits(FieldDigits)
    THEN /\ parsed[1].res.kind = "ok"
         /\ parsed[1].res.len = digits_value(FieldDigits, 0)
         /\ parsed[1].res.used = Len(FieldDigits) + 2
    ELSE parsed[1].res.kind # "ok"

\* the first half of C19 alone: digits followed by CR LF decode to their
\* decimal value and the offset behind the LF
DigitsDecode ==
  (LengthDecoded /\ AllDigits(FieldDigits)) =>
    /\ parsed[1].res.kind = "ok"
    /\ parsed[1].res.len = digits_value(FieldDigits, 0)
    /\ parsed[1].res.used = Len(FieldDigits) + 2

VarintDecoded == parsed # None /\ parsed[1].by = "length_encode"

\* C20: length_encode returns (b0 & 0x3F, 1) when the top bits of the
\* leading byte b0 are 00, ((b0 & 0x3F) * 256 + b1, 2) when they are 01, the
\* big-endian value of the next four bytes and 5 when they are 10, whatever
\* the low six bits of b0, and none when they are 11.
C20_VarintForms ==
  VarintDecoded =>
    LET b0 == buf[1]
        top == b0 \div 64
        res == parsed[1].res
    IN  /\ top = 0 => res = LenSome(b0 % 64, 1)
        /\ top = 1 => res = LenSome((b0 % 64) * 256 + buf[2], 2)
        /\ top = 2 => res = LenSome(buf[2] * 16777216 + buf[3] * 65536 + buf[4] * 256 + buf[5], 5)
        /\ top = 3 => res = LenNone

\* a 14-bit length with bits set in both of its bytes has been decoded
C20_Witness ==
  /\ VarintDecoded
  /\ buf[1] \div 64 = 1 /\ buf[1] % 64 > 0 /\ buf[2] > 0
  /\ parsed[1].res.kind = "some"

\* C17: the removal step of a get or keys call deletes only entries that
\* are expired when they are deleted; an unexpired entry written after the
\* call's read phase is not removed.
C17_RemovesOnlyExpired ==
  [][\A t \in Tasks :
       (pc[t] \in {"get_remove", "keys_remove"} /\ pc'[t] = "write_all")
       => \A k \in (DOMAIN db) \ (DOMAIN db') : is_expired(db[k].expires_at, clock)]_vars

\* the snapshot has been read by Database::new, or main has panicked on it
Booted == boot # "starting" /\ file # None

\* the records of the snapshot with key k that are not older than load time
LiveRecords(k) ==
  { i \in 1..Len(snapshot.records) :
      /\ snapshot.records[i].key = k
      /\ \/ snapshot.records[i].expires_at = None
         \/ snapshot.records[i].expires_at[1] >= clock }

Last(S) == CHOOSE i \in S : \A j \in S : j <= i

\* byte offset (from 0) of the i-th record in the snapshot file
record_offset(i) ==
  Len(encode_snapshot(<<>>)) + Len(encode_records(SubSeq(snapshot.records, 1, i - 1)))

\* C14: loading a well-formed snapshot of records with and without an
\* expiry prefix yields the map of exactly the records that have no expiry
\* or whose expires_at is not before load time (for a key written twice, the
\* later such record), and every record, kept or skipped, is decoded to the
\* start of the next one.
C14_LoadKeepsLiveRecords ==
  (Booted /\ snapshot.damage = "none") =>
    /\ boot = "serving"
    /\ DOMAIN db = { k \in KeySet : LiveRecords(k) # {} }
    /\ \A k \in DOMAIN db :
         LET r == snapshot.records[Last(LiveRecords(k))]
         IN  db[k] = ExpiringValue(r.value, r.expires_at)
    /\ \A i \in 1..Len(snapshot.records) :
         LET kv == serialize_kv(SliceFrom(read_buf(file[1]), record_offset(i)))
         IN  /\ kv.kind = "ok"
             /\ kv.key = snapshot.records[i].key
             /\ kv.used = Len(encode_record(snapshot.records[i]))

\* a snapshot with an expired record between two live ones, one of them
\* with an expiry prefix, has been loaded
C14_Witness ==
  /\ Booted /\ boot = "serving" /\ snapshot.damage = "none"
  /\ Len(snapshot.records) = 3
  /\ snapshot.records[1].expires_at = None
  /\ snapshot.records[2].expires_at # None /\ snapshot.records[2].expires_at[1] < clock
  /\ snapshot.records[3].expires_at # None /\ snapshot.records[3].expires_at[1] >= clock
  /\ snapshot.records[2].key # snapshot.records[3].key
  /\ Cardinality(DOMAIN db) = 2

\* C15: when the snapshot file is malformed or truncated, Database::new
\* returns a store with an empty keyspace and startup continues.
C15_MalformedLoadsEmpty ==
  (Booted /\ snapshot.damage # "none") => (boot = "serving" /\ db = << >>)

\* the handler of t leaves the decoding of the frame it read
Decoded(t) == pc[t] = "parse" /\ pc'[t] # "parse"

MalformedKinds == { "bad_array_marker", "bad_bulk_marker", "non_digit_length", "truncated" }

\* C11: a request with a bad array or bulk-string marker, a non-digit length
\* field or a truncated frame ends the connection it arrived on: no reply is
\* written for it, no store call is made for it, and the other connections
\* stay as they are.
C11_DecodeFailureEndsConnection ==
  [][\A t \in Tasks :
       (Decoded(t) /\ req[t].kind \in MalformedKinds)
       => /\ pc'[t] = "done" /\ conn'[t] # "open"
          /\ resp'[t] = NoReply
          /\ db' = db
          /\ \A u \in Tasks \ {t} : conn'[u] = conn[u] /\ pc'[u] = pc[u]]_vars

\* C12: a well-framed request whose command name is not recognized, or
\* whose shape is wrong, is answered with an error reply and its connection
\* stays open.
C12_UnknownCommandGetsErrorReply ==
  [][\A t \in Tasks :
       (Decoded(t) /\ req[t].kind \in {"unknown_name", "wrong_shape"})
       => /\ conn'[t] = "open"
          /\ pc'[t] = "write_all"
          /\ resp'[t].kind = "error"]_vars

\* t is suspended at its stream read or write
AtNetworkIO(t) == pc[t] \in { "idle", "write_all" }

HoldsGuard(t) == t \in rw_readers \/ t \in rw_writer

\* C13: a task suspended at a network read or write holds neither guard of
\* the keyspace; and a store call in progress while every other task is
\* suspended at network I/O returns, whether or not the others ever resume.
C13_NoLockAcrossNetworkIO ==
  /\ [](\A t \in Tasks : AtNetworkIO(t) => ~HoldsGuard(t))
  /\ \A t \in Tasks :
       (~AtNetworkIO(t) /\ \A u \in Tasks \ {t} : AtNetworkIO(u))
       ~> (pc[t] = "write_all")

\* a set waits for the write lock while the other task, whose get removed
\* an expired key, is suspended at its stream write
C13_Witness ==
  \E t, u \in Tasks :
    /\ pc[t] = "set_lock"
    /\ pc[u] = "write_all" /\ call[u].fn = "get" /\ gone[call[u].key]

AwaitsWrite(t) == pc[t] \in { "set_lock", "swe_lock", "get_wlock", "keys_wlock" }

\* C18: no task awaits the write lock while it holds a read guard, some
\* task can always take a step while a store call is in progress, and every
\* store call returns.
C18_NoUpgradeNoDeadlock ==
  /\ [](\A t \in Tasks : AwaitsWrite(t) => t \notin rw_readers)
  /\ []((\E t \in Tasks : ~AtNetworkIO(t)) => \E t \in Tasks : ENABLED Step(t))
  /\ \A t \in Tasks : ~AtNetworkIO(t) ~> (pc[t] = "write_all")

\* a get and a keys call have both dropped their read guards and await the
\* write lock
C18_Witness ==
  \E t, u \in Tasks :
    /\ pc[t] = "get_wlock" /\ pc[u] = "keys_wlock"
    /\ rw_readers = {} /\ rw_writer = {}

====
